---------------------------- MODULE Spec2Model ----------------------------
(***************************************************************************)
(* Model of the audio/video composition engine of reddit-content-bot:      *)
(*   src/media.py      compose_video_with_speech and the subtitle writers  *)
(*   src/transcribe.py the TimedWord -> caption event strategies           *)
(*                                                                         *)
(* Conventions.                                                            *)
(*  - A Python str is a sequence of one-character strings; the characters  *)
(*    that are not ASCII are named ("ldquo", "rdquo", "rsquo", ...).       *)
(*  - An Optional value is <<>> (None) or <<v>>.                           *)
(*  - Times are integers in milliseconds.  Where the code divides (the     *)
(*    proportional timing), a time is kept as an exact numerator over the  *)
(*    common denominator, so no rounding is introduced by the model;       *)
(*    binary floating point rounding is not modelled.                      *)
(*  - An external tool (ffprobe, ffmpeg, open()) is a nondeterministic     *)
(*    choice of its outcome, made in the action that runs it.              *)
(***************************************************************************)
EXTENDS Integers, Sequences, FiniteSets, TLC

VARIABLES
    \* ---- compose_video_with_speech: the request (never mutated)
    speech_exists, video_exists, music_exists,
    captions_text, ass_captions_text, ass_events, burn_captions,
    playback_speed, output_before,
    \* ---- compose_video_with_speech: the run
    pc, error, trace, probe_stdout, speech_duration, trim_seconds,
    tmpdirs_created, workarea, srt_path, ass_path,
    background_video_len, mux_cmd, output_file, output_streams,
    \* ---- the proportional subtitle writers called on their own
    t_text, t_total, t_words_per_chunk, t_max_chars, t_max_lines, t_op, t_out,
    \* ---- the TimedWord strategies called on their own
    w_words, w_chunk, w_op, w_events

pipeVars == <<speech_exists, video_exists, music_exists, captions_text,
              ass_captions_text, ass_events, burn_captions, playback_speed,
              output_before, pc, error, trace, probe_stdout, speech_duration,
              trim_seconds, tmpdirs_created, workarea, srt_path, ass_path,
              background_video_len, mux_cmd, output_file, output_streams>>
timerVars == <<t_text, t_total, t_words_per_chunk, t_max_chars, t_max_lines,
               t_op, t_out>>
wordVars == <<w_words, w_chunk, w_op, w_events>>
vars == <<pipeVars, timerVars, wordVars>>

-----------------------------------------------------------------------------
(* Bounds of the model *)

\* longest stdout of the duration probe, in characters
MaxStdoutLen == 3
\* a caption text is a concatenation of at most this many Pieces
MaxPieces == 4
\* longest TimedWord sequence
MaxWords == 3

-----------------------------------------------------------------------------
(* Generic helpers *)

Min(a, b) == IF a <= b THEN a ELSE b
Max(a, b) == IF a >= b THEN a ELSE b

SeqsUpTo(S, n) == UNION {[1..k -> S] : k \in 0..n}

RECURSIVE Flatten(_)
Flatten(ss) == IF ss = <<>> THEN <<>> ELSE Head(ss) \o Flatten(Tail(ss))

RECURSIVE Pow10(_)
Pow10(k) == IF k = 0 THEN 1 ELSE 10 * Pow10(k - 1)

None == <<>>
Some(v) == <<v>>
\* Python truthiness of an Optional[str] / Optional[list]: None and the empty
\* value are falsy
Truthy(opt) == opt # None /\ Len(opt[1]) > 0

-----------------------------------------------------------------------------
(* Characters and str methods *)

Whitespace == {" ", "\n"}
Digits == {"0", "1", "2", "3", "4", "5", "6", "7", "8", "9"}
Letters ==
    {"a", "b", "c", "d", "e", "f", "g", "h", "i", "j", "k", "l",
     "m", "n", "o", "p", "q", "r", "s", "t", "u", "v", "w", "x",
     "y", "z", "A", "B", "C", "D", "E", "F", "G", "H", "I", "J",
     "K", "L", "M", "N", "O", "P", "Q", "R", "S", "T", "U", "V",
     "W", "X", "Y", "Z"}
\* \w of the re module
WordChars == Letters \cup Digits \cup {"_"}

RECURSIVE LStrip(_)
LStrip(s) == IF s # <<>> /\ Head(s) \in Whitespace THEN LStrip(Tail(s)) ELSE s

RECURSIVE RStrip(_)
RStrip(s) ==
    IF s # <<>> /\ s[Len(s)] \in Whitespace
    THEN RStrip(SubSeq(s, 1, Len(s) - 1))
    ELSE s

\* str.strip()
Strip(s) == RStrip(LStrip(s))


-----------------------------------------------------------------------------
(* float(str): the decimal literals of Python's float().  The exponent,   *)
(* "inf"/"nan" and underscore forms need characters outside StdoutAlphabet *)
(* and are not modelled.                                                   *)

DigitSeq == <<"0", "1", "2", "3", "4", "5", "6", "7", "8", "9">>
DigitVal(c) == (CHOOSE i \in 1..10 : DigitSeq[i] = c) - 1

RECURSIVE IntOf(_)
IntOf(ds) ==
    IF ds = <<>> THEN 0
    ELSE IntOf(SubSeq(ds, 1, Len(ds) - 1)) * 10 + DigitVal(ds[Len(ds)])

Unsigned(s) == IF s # <<>> /\ Head(s) \in {"-", "+"} THEN Tail(s) ELSE s

\* whether float(s) returns (TRUE) or raises ValueError (FALSE)
PyFloatParses(s) ==
    LET u == Unsigned(Strip(s))
    IN  /\ \A i \in 1..Len(u) : u[i] \in Digits \cup {"."}
        /\ Cardinality({i \in 1..Len(u) : u[i] = "."}) <= 1
        /\ \E i \in 1..Len(u) : u[i] \in Digits

\* float(s) in milliseconds, rounded to the millisecond as f"{x:.3f}" does
\* (exact for literals of at most three decimals)
PyFloatMillis(s) ==
    LET t == Strip(s)
        u == Unsigned(t)
        neg == t # <<>> /\ Head(t) = "-"
        dots == {i \in 1..Len(u) : u[i] = "."}
        dot == IF dots = {} THEN Len(u) + 1 ELSE CHOOSE i \in dots : TRUE
        ip == SubSeq(u, 1, dot - 1)
        fp == SubSeq(u, dot + 1, Len(u))
        k == Len(fp)
        mag == IntOf(ip) * 1000 + (IntOf(fp) * 1000 + Pow10(k) \div 2) \div Pow10(k)
    IN  IF neg THEN 0 - mag ELSE mag

-----------------------------------------------------------------------------
(* _run_command and _probe_duration_seconds *)

Raised == [raised |-> TRUE, value |-> 0]
Returned(v) == [raised |-> FALSE, value |-> v]

\* media.py 9-12: raises RuntimeError iff the exit status is not 0
run_command_raises_ignoring(returncode) == FALSE
run_command_raises(returncode) == returncode # 0

\* media.py 15-32 on the subprocess outcome (returncode, stdout)
probe_duration_seconds_unchecked(returncode, stdout) ==
    IF ~PyFloatParses(Strip(stdout)) THEN Raised
    ELSE Returned(PyFloatMillis(Strip(stdout)))
probe_duration_seconds(returncode, stdout) ==
    IF returncode # 0 THEN Raised
    ELSE IF ~PyFloatParses(Strip(stdout)) THEN Raised
    ELSE Returned(PyFloatMillis(Strip(stdout)))

-----------------------------------------------------------------------------
(* media.py 536-551: _split_into_sentences *)

SentenceEnd == {".", "!", "?"}

\* re.split(r"(?<=[.!?])\s+", s): cut at every whitespace run that directly
\* follows a sentence-terminal character; cur is the part being collected
RECURSIVE SentenceSplit(_, _)
SentenceSplit(s, cur) ==
    IF s = <<>> THEN <<cur>>
    ELSE IF /\ Head(s) \in Whitespace
            /\ cur # <<>>
            /\ cur[Len(cur)] \in SentenceEnd
         THEN <<cur>> \o SentenceSplit(LStrip(s), <<>>)
         ELSE SentenceSplit(Tail(s), Append(cur, Head(s)))

ShortFragment == 10

\* the merge loop of lines 545-550
MergeShort_never(parts, merged) == parts
RECURSIVE MergeShort(_, _)
MergeShort(parts, merged) ==
    IF parts = <<>> THEN merged
    ELSE LET part == Head(parts)
             n == Len(merged)
         IN  IF merged # <<>> /\ Len(part) < ShortFragment
             THEN MergeShort(Tail(parts),
                             [merged EXCEPT ![n] = merged[n] \o <<" ">> \o part])
             ELSE MergeShort(Tail(parts), Append(merged, part))

split_into_sentences(text) ==
    LET t == Strip(text)
    IN  IF t = <<>> THEN <<>> ELSE MergeShort(SentenceSplit(t, <<>>), <<>>)

-----------------------------------------------------------------------------
(* media.py 424-433: _tokenize_words, _escape_ass_text *)

Apostrophes == {"'", "rsquo"}
\* the character class of the second alternative of _WORD_RE
TokenPunct == {".", ",", "!", "?", ";", ":", "-", "ndash", "mdash", "(", ")",
               "[", "]", "\"", "ldquo", "rdquo"}

\* longest prefix of s made of characters of C
RECURSIVE Run(_, _)
Run(s, C) ==
    IF s # <<>> /\ Head(s) \in C THEN <<Head(s)>> \o Run(Tail(s), C) ELSE <<>>

Drop(s, n) == SubSeq(s, n + 1, Len(s))

\* the match of \w+['rsquo]?\w* at the start of s (s starts with a word char)
WordMatch(s) ==
    LET w1 == Run(s, WordChars)
        r1 == Drop(s, Len(w1))
        ap == IF r1 # <<>> /\ Head(r1) \in Apostrophes THEN <<Head(r1)>> ELSE <<>>
        r2 == Drop(r1, Len(ap))
    IN  w1 \o ap \o Run(r2, WordChars)

\* _WORD_RE.finditer(s)
RECURSIVE FindTokens(_)
FindTokens(s) ==
    IF s = <<>> THEN <<>>
    ELSE IF Head(s) \in WordChars
         THEN LET m == WordMatch(s) IN <<m>> \o FindTokens(Drop(s, Len(m)))
    ELSE IF Head(s) \in TokenPunct
         THEN LET m == Run(s, TokenPunct) IN <<m>> \o FindTokens(Drop(s, Len(m)))
    ELSE FindTokens(Tail(s))

tokenize_words(text) == FindTokens(Strip(text))

escape_ass_text(text) ==
    [i \in 1..Len(text) |->
        IF text[i] = "{" THEN "(" ELSE IF text[i] = "}" THEN ")" ELSE text[i]]

\* " ".join(items)
RECURSIVE JoinSpace(_)
JoinSpace(items) ==
    IF items = <<>> THEN <<>>
    ELSE IF Len(items) = 1 THEN items[1]
    ELSE items[1] \o <<" ">> \o JoinSpace(Tail(items))

-----------------------------------------------------------------------------
(* media.py 491-533 and 348-421: the proportional subtitle writers.        *)
(* A written block / Dialogue line is [start, end, den, text]: its times   *)
(* are start/den and end/den milliseconds (den is total_chars resp.        *)
(* total_words, so the divisions of lines 517 and 408 are exact); its text *)
(* is the payload written after the times.  The timestamp strings are not  *)
(* part of it.                                                             *)

RECURSIVE SumLen(_)
SumLen(ss) == IF ss = <<>> THEN 0 ELSE Len(Head(ss)) + SumLen(Tail(ss))

\* longest prefix of s with no whitespace
RECURSIVE RunWord(_)
RunWord(s) ==
    IF s # <<>> /\ Head(s) \notin Whitespace
    THEN <<Head(s)>> \o RunWord(Tail(s)) ELSE <<>>

IsBlank(chunk) == \A i \in 1..Len(chunk) : chunk[i] \in Whitespace

\* TextWrapper._split of a text without hyphens: the words and the
\* whitespace runs, every whitespace character replaced by a space
RECURSIVE WrapSplit(_)
WrapSplit(s) ==
    IF s = <<>> THEN <<>>
    ELSE IF Head(s) \in Whitespace
         THEN LET n == Len(Run(s, Whitespace))
              IN  <<[i \in 1..n |-> " "]>> \o WrapSplit(Drop(s, n))
         ELSE LET w == RunWord(s) IN <<w>> \o WrapSplit(Drop(s, Len(w)))

\* the inner loop of TextWrapper._wrap_chunks: chunks that fit on the line
RECURSIVE WrapFill(_, _, _)
WrapFill(chunks, cur_len, width) ==
    IF chunks # <<>> /\ cur_len + Len(Head(chunks)) <= width
    THEN <<Head(chunks)>>
         \o WrapFill(Tail(chunks), cur_len + Len(Head(chunks)), width)
    ELSE <<>>

\* TextWrapper._wrap_chunks (drop_whitespace, break_long_words), width >= 1
RECURSIVE WrapChunks(_, _, _)
WrapChunks(chunks, lines, width) ==
    IF chunks = <<>> THEN lines
    ELSE LET c0 == IF IsBlank(Head(chunks)) /\ lines # <<>>
                   THEN Tail(chunks) ELSE chunks
             fit == WrapFill(c0, 0, width)
             r1 == Drop(c0, Len(fit))
             fit_len == SumLen(fit)
             long == r1 # <<>> /\ Len(Head(r1)) > width
             space_left == width - fit_len
             cur == IF long
                    THEN Append(fit, SubSeq(Head(r1), 1, space_left))
                    ELSE fit
             rest == IF long
                     THEN <<Drop(Head(r1), space_left)>> \o Tail(r1)
                     ELSE r1
             kept == IF cur # <<>> /\ IsBlank(cur[Len(cur)])
                     THEN SubSeq(cur, 1, Len(cur) - 1) ELSE cur
         IN  WrapChunks(rest,
                        IF kept # <<>> THEN Append(lines, Flatten(kept)) ELSE lines,
                        width)

\* textwrap.wrap(text, width=width)
textwrap_wrap(text, width) == WrapChunks(WrapSplit(text), <<>>, width)

\* "\n".join(lines)
RECURSIVE JoinLines(_)
JoinLines(lines) ==
    IF lines = <<>> THEN <<>>
    ELSE IF Len(lines) = 1 THEN lines[1]
    ELSE lines[1] \o <<"\n">> \o JoinLines(Tail(lines))

\* media.py 523-528
srt_payload(sentence, max_chars_per_line, max_lines) ==
    LET w == textwrap_wrap(Strip(sentence), max_chars_per_line)
        wrapped == IF w = <<>> THEN <<<<>>>> ELSE w
    IN  JoinLines(IF Len(wrapped) > max_lines
                  THEN SubSeq(wrapped, 1, max_lines) ELSE wrapped)

\* the loop of lines 514-530; cursor is a numerator over total_chars
RECURSIVE SrtBlocks(_, _, _, _, _, _)
SrtBlocks(sentences, cursor, total_seconds, total_chars, max_chars_per_line, max_lines) ==
    IF sentences = <<>> THEN <<>>
    ELSE LET sentence == Head(sentences)
             dur == total_seconds * Len(sentence)
             start == cursor
             end == Min(total_seconds * total_chars, start + dur)
         IN  <<[start |-> start, end |-> end, den |-> total_chars,
                text |-> srt_payload(sentence, max_chars_per_line, max_lines)]>>
             \o SrtBlocks(Tail(sentences), end, total_seconds, total_chars,
                          max_chars_per_line, max_lines)

write_proportional_srt(text, total_seconds, max_chars_per_line, max_lines) ==
    LET split == split_into_sentences(text)
        sentences == IF split = <<>> THEN <<Strip(text)>> ELSE split
        total_chars == IF SumLen(sentences) = 0 THEN 1 ELSE SumLen(sentences)
    IN  SrtBlocks(sentences, 0, total_seconds, total_chars, max_chars_per_line,
                  max_lines)

\* the loop of lines 405-415; cursor is a numerator over total_words
RECURSIVE AssLines(_, _, _, _, _)
AssLines(words, cursor, total_seconds, total_words, words_per_chunk) ==
    IF words = <<>> THEN <<>>
    ELSE LET chunk == SubSeq(words, 1, Min(Len(words), Max(1, words_per_chunk)))
             dur == total_seconds * Len(chunk)
             start == cursor
             end == Min(total_seconds * total_words, start + dur)
         IN  <<[start |-> start, end |-> end, den |-> total_words,
                text |-> escape_ass_text(JoinSpace(chunk))]>>
             \o AssLines(Drop(words, Len(chunk)), end, total_seconds,
                         total_words, words_per_chunk)

write_centered_ass(text, total_seconds, words_per_chunk) ==
    LET tokens == tokenize_words(text)
        words == IF tokens = <<>> THEN <<Strip(text)>> ELSE tokens
        total_words == IF Len(words) = 0 THEN 1 ELSE Len(words)
    IN  AssLines(words, 0, total_seconds, total_words, words_per_chunk)

\* media.py 478-483: one Dialogue line per event, times as given
write_centered_ass_events(events) ==
    [i \in 1..Len(events) |->
        [start |-> events[i].start, end |-> events[i].end, den |-> 1,
         text |-> escape_ass_text(Strip(events[i].text))]]

-----------------------------------------------------------------------------
(* transcribe.py: TimedWord sequences to caption events.                   *)
(* A TimedWord is [text, start, end]; an event is [start, end, text].      *)

\* " ".join(w["text"] for w in chunk)
WordTexts(chunk) == [i \in 1..Len(chunk) |-> chunk[i].text]

\* transcribe.py 67-70: the event of one fixed-size chunk
chunk_event_unclamped(chunk) ==
    [start |-> chunk[1].start,
     end |-> chunk[Len(chunk)].end,
     text |-> Strip(JoinSpace(WordTexts(chunk)))]
chunk_event(chunk) ==
    LET start == chunk[1].start
    IN  [start |-> start,
         end |-> IF chunk[Len(chunk)].end >= start
                 THEN chunk[Len(chunk)].end ELSE start,
         text |-> Strip(JoinSpace(WordTexts(chunk)))]

\* transcribe.py 53-71
RECURSIVE words_to_ass_events(_, _)
words_to_ass_events(words, words_per_chunk) ==
    IF words = <<>> THEN <<>>
    ELSE LET chunk == SubSeq(words, 1, Min(Len(words), Max(1, words_per_chunk)))
         IN  <<chunk_event(chunk)>>
             \o words_to_ass_events(Drop(words, Len(chunk)), words_per_chunk)

\* transcribe.py 117-119
EndTokens == {<<".">>, <<"?">>, <<"!">>, <<".", "rdquo">>, <<"!", "rdquo">>,
              <<"?", "rdquo">>, <<"hellip">>}
is_end_token(tok) == Strip(tok) \in EndTokens

\* transcribe.py 122-130: partition into sentences
Sentences_unsplit(words, current) ==
    IF words = <<>> THEN <<>> ELSE <<words>>
RECURSIVE Sentences(_, _)
Sentences(words, current) ==
    IF words = <<>> THEN (IF current = <<>> THEN <<>> ELSE <<current>>)
    ELSE LET cur == Append(current, Head(words))
         IN  IF is_end_token(Head(words).text)
             THEN <<cur>> \o Sentences(Tail(words), <<>>)
             ELSE Sentences(Tail(words), cur)

\* transcribe.py 135-142: the events of one sentence (no clamp of end)
RECURSIVE SentenceChunks(_, _)
SentenceChunks(sent, max_words_per_event) ==
    IF sent = <<>> THEN <<>>
    ELSE LET chunk == SubSeq(sent, 1, Min(Len(sent), Max(1, max_words_per_event)))
         IN  <<[start |-> chunk[1].start,
                end |-> chunk[Len(chunk)].end,
                text |-> Strip(JoinSpace(WordTexts(chunk)))]>>
             \o SentenceChunks(Drop(sent, Len(chunk)), max_words_per_event)

RECURSIVE ChunkAll(_, _)
ChunkAll(sentences, max_words_per_event) ==
    IF sentences = <<>> THEN <<>>
    ELSE SentenceChunks(Head(sentences), max_words_per_event)
         \o ChunkAll(Tail(sentences), max_words_per_event)

\* transcribe.py 105-144
words_to_sentence_chunk_events(words, max_words_per_event) ==
    IF words = <<>> THEN <<>>
    ELSE ChunkAll(Sentences(words, <<>>), max_words_per_event)

\* transcribe.py 153-155
PunctChars == {".", ",", "!", "?", ";", ":", "-", "ndash", "mdash", "(", ")",
               "[", "]", "\"", "ldquo", "rdquo", "'", "rsquo"}
is_punct(token) ==
    LET t == Strip(token)
    IN  Len(t) > 0 /\ \A i \in 1..Len(t) : t[i] \in PunctChars

\* transcribe.py 157-172: the loop, events being the list built so far
RECURSIVE SingleWordLoop(_, _)
SingleWordLoop(words, events) ==
    IF words = <<>> THEN events
    ELSE LET w == Head(words)
             token == Strip(w.text)
             n == Len(events)
         IN  IF token = <<>> THEN SingleWordLoop(Tail(words), events)
             ELSE IF is_punct(token) /\ events # <<>>
             THEN SingleWordLoop(Tail(words),
                      [events EXCEPT ![n].text = events[n].text \o token,
                                     ![n].end = w.end])
             ELSE SingleWordLoop(Tail(words),
                      Append(events, [start |-> w.start, end |-> w.end,
                                      text |-> token]))

\* transcribe.py 147-174
words_to_single_word_events(words) == SingleWordLoop(words, <<>>)

-----------------------------------------------------------------------------
(* compose_video_with_speech (media.py 35-345): what the external tools do *)
(* with the arguments the code gives them                                  *)

\* "-ss 0 -t <trim_arg>" (lines 113-116, 133-136): the first t milliseconds
ffmpeg_trim(src_len, t) == Min(src_len, t)

\* amix "duration=first" (lines 154, 158): the first input, the speech, decides
amix_duration_first(first_len, other_len) == first_len

\* setpts=PTS/speed and atempo=speed; playback_speed is kept in percent
SpeedScaled(len, speed) == (len * 100) \div speed

\* the streams of the muxed container (lines 231-258, 266-293, 297-343)
mux_streams(cmd, video_len, audio_len) ==
    LET v == IF cmd.setpts THEN SpeedScaled(video_len, cmd.speed) ELSE video_len
        a == IF cmd.atempo THEN SpeedScaled(audio_len, cmd.speed) ELSE audio_len
    IN  IF cmd.shortest
        THEN [video |-> Min(v, a), audio |-> Min(v, a)]
        ELSE [video |-> v, audio |-> a]

\* "-y ... output_video_path" of a command that exits non-zero: ffmpeg failed
\* before it opened the output, or after it started writing it
ffmpeg_failed_output(before) == {before, "partial"}

\* "-shortest" (lines 256, 291, 312, 340)
shortest_flag_absent == FALSE
shortest_flag == TRUE

\* lines 225-343: the command of step 4
mux_command_no_atempo(captions, ass_text, events, burn, speed, srt, ass) ==
    LET burned(path) ==
            [subtitles |-> path, setpts |-> speed # 100, cv |-> "libx264",
             atempo |-> FALSE, ca |-> "aac", shortest |-> shortest_flag,
             speed |-> speed]
    IN  IF (Truthy(events) \/ Truthy(ass_text)) /\ burn /\ ass # None
        THEN burned(ass)
        ELSE IF Truthy(captions) /\ burn /\ srt # None
        THEN burned(srt)
        ELSE IF speed = 100
        THEN [subtitles |-> None, setpts |-> FALSE, cv |-> "copy",
              atempo |-> FALSE, ca |-> "aac", shortest |-> shortest_flag, speed |-> speed]
        ELSE [subtitles |-> None, setpts |-> TRUE, cv |-> "libx264",
              atempo |-> TRUE, ca |-> "aac", shortest |-> shortest_flag, speed |-> speed]
mux_command(captions, ass_text, events, burn, speed, srt, ass) ==
    LET burned(path) ==
            [subtitles |-> path, setpts |-> speed # 100, cv |-> "libx264",
             atempo |-> speed # 100, ca |-> "aac", shortest |-> shortest_flag,
             speed |-> speed]
    IN  IF (Truthy(events) \/ Truthy(ass_text)) /\ burn /\ ass # None
        THEN burned(ass)
        ELSE IF Truthy(captions) /\ burn /\ srt # None
        THEN burned(srt)
        ELSE IF speed = 100
        THEN [subtitles |-> None, setpts |-> FALSE, cv |-> "copy",
              atempo |-> FALSE, ca |-> "aac", shortest |-> shortest_flag, speed |-> speed]
        ELSE [subtitles |-> None, setpts |-> TRUE, cv |-> "libx264",
              atempo |-> TRUE, ca |-> "aac", shortest |-> shortest_flag, speed |-> speed]

\* lines 91-96
missing_input_speech_only(se, ve, me) == ~se
missing_input(se, ve, me) == ~se \/ ~ve \/ ~me

\* the working area: the directory of line 102 and the files of 103-107
NoWorkArea ==
    [exists |-> FALSE, video_trim |-> -1, music_trim |-> -1,
     mixed_audio |-> -1, srt |-> None, ass |-> None]

\* leaving the with block of line 102, normally or by an exception
TemporaryDirectoryExit_leak(w) == w
TemporaryDirectoryExit(w) == NoWorkArea

\* the statement order of lines 98-343
next_pc_mix_first(step) ==
    CASE step = "CheckInputs" -> "Probe"
      [] step = "Probe" -> "EnterWorkArea"
      [] step = "EnterWorkArea" -> "TrimVideo"
      [] step = "TrimVideo" -> "MixAudio"
      [] step = "MixAudio" -> "TrimMusic"
      [] step = "TrimMusic" -> "RenderSubtitles"
      [] step = "RenderSubtitles" -> "Mux"
      [] step = "Mux" -> "Done"
next_pc(step) ==
    CASE step = "CheckInputs" -> "Probe"
      [] step = "Probe" -> "EnterWorkArea"
      [] step = "EnterWorkArea" -> "TrimVideo"
      [] step = "TrimVideo" -> "TrimMusic"
      [] step = "TrimMusic" -> "MixAudio"
      [] step = "MixAudio" -> "RenderSubtitles"
      [] step = "RenderSubtitles" -> "Mux"
      [] step = "Mux" -> "Done"

NoError == [kind |-> "none", at |-> "none"]

-----------------------------------------------------------------------------
(* Inputs of the model *)

StdoutAlphabet == {"2", "-", ".", " ", "N"}
Stdouts == SeqsUpTo(StdoutAlphabet, MaxStdoutLen)
ExitCodes == {0, 1}
\* lengths, in milliseconds, of the background video and music
MediaLens == {1000, 30000}
\* playback_speed in percent: 0.5, 1.0, 1.2
Speeds == {50, 100, 120}

CaptionTexts == {None, Some(<<" ">>), Some(<<"H", "i", ".">>)}
AssCaptionTexts == {None, Some(<<"H", "i", " ", "{", "a", "}">>)}
AssEventLists ==
    {None, Some(<<[start |-> 0, end |-> 400, text |-> <<"I", "t", "'", "s", ".">>]>>)}

requestVars == <<speech_exists, video_exists, music_exists, captions_text,
                 ass_captions_text, ass_events, burn_captions, playback_speed,
                 output_before>>

PipeInit ==
    /\ speech_exists \in BOOLEAN
    /\ video_exists \in BOOLEAN
    /\ music_exists \in BOOLEAN
    /\ captions_text \in CaptionTexts
    /\ ass_captions_text \in AssCaptionTexts
    /\ ass_events \in AssEventLists
    /\ burn_captions \in BOOLEAN
    /\ playback_speed \in Speeds
    /\ output_before \in {"absent", "old"}
    /\ pc = "CheckInputs"
    /\ error = NoError
    /\ trace = <<>>
    /\ probe_stdout = <<>>
    /\ speech_duration = 0
    /\ trim_seconds = 0
    /\ tmpdirs_created = 0
    /\ workarea = NoWorkArea
    /\ srt_path = None
    /\ ass_path = None
    /\ background_video_len = 0
    /\ mux_cmd = None
    /\ output_file = output_before
    /\ output_streams = [video |-> 0, audio |-> 0]

\* the pipeline is not running (the specifications of the pure functions)
PipeOff ==
    /\ speech_exists = TRUE /\ video_exists = TRUE /\ music_exists = TRUE
    /\ captions_text = None /\ ass_captions_text = None /\ ass_events = None
    /\ burn_captions = TRUE /\ playback_speed = 100 /\ output_before = "absent"
    /\ pc = "off" /\ error = NoError /\ trace = <<>> /\ probe_stdout = <<>>
    /\ speech_duration = 0 /\ trim_seconds = 0 /\ tmpdirs_created = 0
    /\ workarea = NoWorkArea /\ srt_path = None /\ ass_path = None
    /\ background_video_len = 0 /\ mux_cmd = None /\ output_file = "absent"
    /\ output_streams = [video |-> 0, audio |-> 0]

TimerOff ==
    /\ t_text = <<>> /\ t_total = 0 /\ t_words_per_chunk = 0
    /\ t_max_chars = 0 /\ t_max_lines = 0
    /\ t_op = "off" /\ t_out = <<>>

WordsOff ==
    /\ w_words = <<>> /\ w_chunk = 0 /\ w_op = "off" /\ w_events = <<>>

-----------------------------------------------------------------------------
(* compose_video_with_speech, one action per step *)

Logged(step, rc) == Append(trace, [step |-> step, rc |-> rc])

\* an exception raised inside the with block of line 102
RaiseInWorkArea(kind, step) ==
    /\ pc' = "Failed"
    /\ error' = [kind |-> kind, at |-> step]
    /\ workarea' = TemporaryDirectoryExit(workarea)

\* lines 91-96
CheckInputs ==
    /\ pc = "CheckInputs"
    /\ IF missing_input(speech_exists, video_exists, music_exists)
       THEN /\ pc' = "Failed"
            /\ error' = [kind |-> "FileNotFoundError", at |-> "CheckInputs"]
       ELSE /\ pc' = next_pc("CheckInputs")
            /\ error' = error
    /\ UNCHANGED <<requestVars, trace, probe_stdout, speech_duration,
                   trim_seconds, tmpdirs_created, workarea, srt_path, ass_path,
                   background_video_len, mux_cmd, output_file, output_streams,
                   timerVars, wordVars>>

\* lines 98-100
Probe ==
    /\ pc = "Probe"
    /\ \E rc \in ExitCodes, out \in Stdouts :
         LET r == probe_duration_seconds(rc, out)
         IN  /\ trace' = Logged("Probe", rc)
             /\ probe_stdout' = out
             /\ IF r.raised
                THEN /\ pc' = "Failed"
                     /\ error' = [kind |-> "ProbeError", at |-> "Probe"]
                     /\ UNCHANGED <<speech_duration, trim_seconds>>
                ELSE /\ pc' = next_pc("Probe")
                     /\ error' = error
                     /\ speech_duration' = r.value
                     /\ trim_seconds' = Max(0, r.value)
    /\ UNCHANGED <<requestVars, tmpdirs_created, workarea, srt_path, ass_path,
                   background_video_len, mux_cmd, output_file, output_streams,
                   timerVars, wordVars>>

\* lines 102-107
EnterWorkArea ==
    /\ pc = "EnterWorkArea"
    /\ workarea' = [NoWorkArea EXCEPT !.exists = TRUE]
    /\ tmpdirs_created' = tmpdirs_created + 1
    /\ srt_path' = IF Truthy(captions_text) THEN Some("captions.srt") ELSE None
    /\ ass_path' = IF Truthy(ass_captions_text) \/ Truthy(ass_events)
                   THEN Some("captions.ass") ELSE None
    /\ pc' = next_pc("EnterWorkArea")
    /\ UNCHANGED <<requestVars, error, trace, probe_stdout, speech_duration,
                   trim_seconds, background_video_len, mux_cmd, output_file,
                   output_streams, timerVars, wordVars>>

\* lines 110-127
TrimVideo ==
    /\ pc = "TrimVideo"
    /\ \E rc \in ExitCodes, len \in MediaLens :
         /\ trace' = Logged("TrimVideo", rc)
         /\ background_video_len' = len
         /\ IF run_command_raises(rc)
            THEN RaiseInWorkArea("RuntimeError", "TrimVideo")
            ELSE /\ workarea' = [workarea EXCEPT
                                   !.video_trim = ffmpeg_trim(len, trim_seconds)]
                 /\ pc' = next_pc("TrimVideo")
                 /\ error' = error
    /\ UNCHANGED <<requestVars, probe_stdout, speech_duration, trim_seconds,
                   tmpdirs_created, srt_path, ass_path, mux_cmd, output_file,
                   output_streams, timerVars, wordVars>>

\* lines 130-146
TrimMusic ==
    /\ pc = "TrimMusic"
    /\ \E rc \in ExitCodes, len \in MediaLens :
         /\ trace' = Logged("TrimMusic", rc)
         /\ IF run_command_raises(rc)
            THEN RaiseInWorkArea("RuntimeError", "TrimMusic")
            ELSE /\ workarea' = [workarea EXCEPT
                                   !.music_trim = ffmpeg_trim(len, trim_seconds)]
                 /\ pc' = next_pc("TrimMusic")
                 /\ error' = error
    /\ UNCHANGED <<requestVars, probe_stdout, speech_duration, trim_seconds,
                   tmpdirs_created, srt_path, ass_path, background_video_len,
                   mux_cmd, output_file, output_streams, timerVars, wordVars>>

\* the length of the speech stream: what the probe printed, when that is a
\* length at all
SpeechLens == IF speech_duration >= 0 THEN {speech_duration} ELSE MediaLens

\* lines 150-177
MixAudio ==
    /\ pc = "MixAudio"
    /\ \E rc \in ExitCodes, len \in SpeechLens :
         /\ trace' = Logged("MixAudio", rc)
         /\ IF run_command_raises(rc)
            THEN RaiseInWorkArea("RuntimeError", "MixAudio")
            ELSE /\ workarea' = [workarea EXCEPT
                                   !.mixed_audio =
                                       amix_duration_first(len, workarea.music_trim)]
                 /\ pc' = next_pc("MixAudio")
                 /\ error' = error
    /\ UNCHANGED <<requestVars, probe_stdout, speech_duration, trim_seconds,
                   tmpdirs_created, srt_path, ass_path, background_video_len,
                   mux_cmd, output_file, output_streams, timerVars, wordVars>>

\* the defaults of lines 54, 55 and 57
captions_max_chars_per_line == 42
captions_max_lines == 2
ass_words_per_chunk == 6

\* the conditions of lines 180, 189 and 205
WritesSrt == Truthy(captions_text) /\ srt_path # None
WritesAssEvents == Truthy(ass_events) /\ ass_path # None
WritesAssText_never == FALSE
WritesAssText == ~WritesAssEvents /\ Truthy(ass_captions_text) /\ ass_path # None

\* lines 180-222; opened says whether open(path, "w") succeeded
RenderSubtitles ==
    /\ pc = "RenderSubtitles"
    /\ IF WritesSrt \/ WritesAssEvents \/ WritesAssText
       THEN \E opened \in BOOLEAN :
              IF opened
              THEN /\ trace' = Logged("RenderSubtitles", 0)
                   /\ workarea' =
                        [workarea EXCEPT
                           !.srt = IF WritesSrt
                                   THEN Some(write_proportional_srt(
                                                 captions_text[1], trim_seconds,
                                                 captions_max_chars_per_line,
                                                 captions_max_lines))
                                   ELSE None,
                           !.ass = IF WritesAssEvents
                                   THEN Some(write_centered_ass_events(ass_events[1]))
                                   ELSE IF WritesAssText
                                   THEN Some(write_centered_ass(
                                                 ass_captions_text[1], trim_seconds,
                                                 ass_words_per_chunk))
                                   ELSE None]
                   /\ pc' = next_pc("RenderSubtitles")
                   /\ error' = error
              ELSE /\ trace' = Logged("RenderSubtitles", 1)
                   /\ RaiseInWorkArea("OSError", "RenderSubtitles")
       ELSE /\ pc' = next_pc("RenderSubtitles")
            /\ UNCHANGED <<trace, workarea, error>>
    /\ UNCHANGED <<requestVars, probe_stdout, speech_duration, trim_seconds,
                   tmpdirs_created, srt_path, ass_path, background_video_len,
                   mux_cmd, output_file, output_streams, timerVars, wordVars>>

\* lines 225-345
Mux ==
    /\ pc = "Mux"
    /\ LET cmd == mux_command(captions_text, ass_captions_text, ass_events,
                              burn_captions, playback_speed, srt_path, ass_path)
       IN  \E rc \in ExitCodes :
             /\ trace' = Logged("Mux", rc)
             /\ mux_cmd' = Some(cmd)
             /\ IF run_command_raises(rc)
                THEN /\ \E o \in ffmpeg_failed_output(output_file) :
                          output_file' = o
                     /\ UNCHANGED output_streams
                     /\ RaiseInWorkArea("RuntimeError", "Mux")
                ELSE /\ output_file' = "complete"
                     /\ output_streams' = mux_streams(cmd, workarea.video_trim,
                                                      workarea.mixed_audio)
                     /\ workarea' = TemporaryDirectoryExit(workarea)
                     /\ pc' = next_pc("Mux")
                     /\ error' = error
    /\ UNCHANGED <<requestVars, probe_stdout, speech_duration, trim_seconds,
                   tmpdirs_created, srt_path, ass_path, background_video_len,
                   timerVars, wordVars>>

Init == PipeInit /\ TimerOff /\ WordsOff

Next ==
    \/ CheckInputs
    \/ Probe
    \/ EnterWorkArea
    \/ TrimVideo
    \/ TrimMusic
    \/ MixAudio
    \/ RenderSubtitles
    \/ Mux

Spec == Init /\ [][Next]_vars

-----------------------------------------------------------------------------
(* Properties of compose_video_with_speech, checked under Spec *)

StepNames == [i \in 1..Len(trace) |-> trace[i].step]
IsPrefix(a, b) == Len(a) <= Len(b) /\ SubSeq(b, 1, Len(a)) = a
OrderWithSubtitles ==
    <<"Probe", "TrimVideo", "TrimMusic", "MixAudio", "RenderSubtitles", "Mux">>
OrderWithoutSubtitles == <<"Probe", "TrimVideo", "TrimMusic", "MixAudio", "Mux">>
CaptionConfigured ==
    Truthy(captions_text) \/ Truthy(ass_captions_text) \/ Truthy(ass_events)
Terminal == pc \in {"Done", "Failed"}
AnyInputMissing == ~speech_exists \/ ~video_exists \/ ~music_exists

\* C1: the steps of a run are a prefix of Probe, TrimVideo, TrimMusic,
\* MixAudio, [RenderSubtitles], Mux, none twice; every step but the last one
\* run has succeeded; RenderSubtitles is part of a completed run exactly when
\* a caption input is configured; Done is reached only after Mux succeeded.
C1_StepsInFixedOrder ==
    /\ \/ IsPrefix(StepNames, OrderWithSubtitles)
       \/ IsPrefix(StepNames, OrderWithoutSubtitles)
    /\ \A i \in 1..(Len(trace) - 1) : trace[i].rc = 0
    /\ pc = "Done" =>
         /\ trace # <<>>
         /\ trace[Len(trace)] = [step |-> "Mux", rc |-> 0]
         /\ StepNames = IF CaptionConfigured THEN OrderWithSubtitles
                        ELSE OrderWithoutSubtitles

C1_Witness == pc = "Done" /\ StepNames = OrderWithSubtitles

\* C2: once the call has returned or raised, the working area does not
\* exist and none of its files does.
C2_WorkAreaRemoved == Terminal => workarea = NoWorkArea

C2_Witness ==
    /\ pc = "Failed" /\ error.at = "Mux" /\ tmpdirs_created = 1
    /\ CaptionConfigured /\ ~workarea.exists

\* C3: with an input path missing, the call raises FileNotFoundError and no
\* subprocess is ever spawned nor a working area created.
C3_MissingInputSpawnsNothing ==
    AnyInputMissing =>
        /\ trace = <<>>
        /\ tmpdirs_created = 0
        /\ ~workarea.exists
        /\ pc # "CheckInputs" =>
             pc = "Failed" /\ error.kind = "FileNotFoundError"

C3_Witness ==
    /\ pc = "Failed" /\ error.kind = "FileNotFoundError"
    /\ speech_exists /\ video_exists /\ ~music_exists

\* C4: a command that exits non-zero is the last one of the run: the run is
\* Failed with the error of that step, and no command is run twice.
C4_FailureAbortsAtStep ==
    /\ \A i \in 1..Len(trace) :
         trace[i].rc # 0 =>
            /\ i = Len(trace)
            /\ pc = "Failed"
            /\ error.at = trace[i].step
            /\ error.kind \in {"ProbeError", "RuntimeError", "OSError"}
    /\ \A i, j \in 1..Len(trace) : i # j => trace[i].step # trace[j].step

C4_Witness ==
    /\ pc = "Failed"
    /\ trace = <<[step |-> "Probe", rc |-> 0], [step |-> "TrimVideo", rc |-> 0],
                 [step |-> "TrimMusic", rc |-> 1]>>

\* C5: a run that ends in Failed has neither created nor modified the file
\* at output_video_path, and a run that ends in Done has produced it whole.
C5_NoPartialOutput ==
    /\ pc = "Done" => output_file = "complete"
    /\ pc = "Failed" => output_file = output_before

\* C6 as claimed: the probe fails whenever ffprobe exits non-zero or prints
\* anything but a non-negative number, and then nothing else runs.
ParsesNonNegative(s) == PyFloatParses(s) /\ PyFloatMillis(s) >= 0
C6_ProbeRejectsNegative ==
    (trace # <<>> /\ (trace[1].rc # 0 \/ ~ParsesNonNegative(probe_stdout))) =>
        /\ pc = "Failed" /\ error.kind = "ProbeError"
        /\ Len(trace) = 1

\* C6 amended: the probe fails exactly when ffprobe exits non-zero or its
\* output does not parse as a number; a probe failure is fatal (nothing runs
\* after it, no working area is created); a negative number is accepted and
\* the target duration is then 0.
C6_ProbeFailsOnExitOrParse ==
    trace # <<>> =>
        /\ (trace[1].rc # 0 \/ ~PyFloatParses(probe_stdout))
              <=> error.kind = "ProbeError"
        /\ error.kind = "ProbeError" =>
              pc = "Failed" /\ Len(trace) = 1 /\ tmpdirs_created = 0
        /\ (trace[1].rc = 0 /\ PyFloatParses(probe_stdout)
              /\ PyFloatMillis(probe_stdout) < 0) =>
              speech_duration < 0 /\ trim_seconds = 0

C6_Witness ==
    /\ pc = "Done" /\ probe_stdout = <<"-", "2">> /\ trim_seconds = 0

\* C7 as claimed: with D >= 0 the probed speech duration, both streams of
\* the output are at most D long, and exactly D long at playback speed 1.0.
C7_OutputWithinSpeech ==
    (pc = "Done" /\ speech_duration >= 0) =>
        /\ output_streams.video <= speech_duration
        /\ output_streams.audio <= speech_duration
        /\ playback_speed = 100 =>
             /\ output_streams.video = speech_duration
             /\ output_streams.audio = speech_duration

\* C7 amended: with T = max(0, D), both streams of the output are at most T
\* long whenever playback_speed >= 1.0, and at playback speed 1.0 both are
\* exactly min(T, length of the background video) long.
C7_OutputWithinTarget ==
    pc = "Done" =>
        LET T == Max(0, speech_duration)
        IN  /\ playback_speed >= 100 =>
                 output_streams.video <= T /\ output_streams.audio <= T
            /\ playback_speed = 100 =>
                 /\ output_streams.video = Min(T, background_video_len)
                 /\ output_streams.audio = Min(T, background_video_len)

C7_Witness ==
    /\ pc = "Done" /\ playback_speed = 100
    /\ background_video_len < speech_duration
    /\ output_streams.video = background_video_len

-----------------------------------------------------------------------------
(* The proportional writers called on any text: SpecTimer *)

\* what caption texts are made of; the last piece is a sentence of
\* ShortFragment characters followed by a space
Pieces == {<<"a">>, <<".">>, <<" ">>,
           <<"b", "c", "d", "e", "f", "g", "h", "i", "j", ".", " ">>}
Texts == {Flatten(ps) : ps \in SeqsUpTo(Pieces, MaxPieces)}
\* total_seconds, in milliseconds
Totals == {0, 1000, 2500}
ChunkSizes == {0, 1, 2}
\* max_chars_per_line and max_lines
WrapWidths == {4, 42}
WrapMaxLines == {1, 2}

TimerInit ==
    /\ t_text \in Texts
    /\ t_total \in Totals
    /\ t_words_per_chunk \in ChunkSizes
    /\ t_max_chars \in WrapWidths
    /\ t_max_lines \in WrapMaxLines
    /\ t_op = "idle"
    /\ t_out = <<>>

\* media.py 491-533 called with (t_text, t_total, t_max_chars, t_max_lines)
CallWriteProportionalSrt ==
    /\ t_op = "idle"
    /\ t_op' = "srt"
    /\ t_out' = write_proportional_srt(t_text, t_total, t_max_chars, t_max_lines)
    /\ UNCHANGED <<t_text, t_total, t_words_per_chunk, t_max_chars, t_max_lines,
                   pipeVars, wordVars>>

\* media.py 348-421 called with (t_text, t_total, t_words_per_chunk)
CallWriteCenteredAss ==
    /\ t_op = "idle"
    /\ t_op' = "ass"
    /\ t_out' = write_centered_ass(t_text, t_total, t_words_per_chunk)
    /\ UNCHANGED <<t_text, t_total, t_words_per_chunk, t_max_chars, t_max_lines,
                   pipeVars, wordVars>>

TimerNext == CallWriteProportionalSrt \/ CallWriteCenteredAss

InitTimer == PipeOff /\ TimerInit /\ WordsOff

SpecTimer == InitTimer /\ [][TimerNext]_vars

\* C8: for a (non-empty) text the intervals written by either proportional
\* writer start at 0, are ascending and contiguous, and the last one ends at
\* total_seconds.
C8_IntervalsCoverTotal ==
    (t_op \in {"srt", "ass"} /\ t_text # <<>>) =>
        /\ t_out # <<>>
        /\ t_out[1].start = 0
        /\ \A i \in 1..Len(t_out) : t_out[i].start <= t_out[i].end
        /\ \A i \in 2..Len(t_out) : t_out[i].start = t_out[i - 1].end
        /\ t_out[Len(t_out)].end = t_total * t_out[Len(t_out)].den

-----------------------------------------------------------------------------
(* The TimedWord strategies called on any word sequence: SpecWords *)

WordTextSet == {<<"a">>, <<".">>, <<>>}
WordTimes == {0, 400}
TimedWords == [text : WordTextSet, start : WordTimes, end : WordTimes]
WordChunkSizes == {0, 1, 2}

WordsInit ==
    /\ w_words \in SeqsUpTo(TimedWords, MaxWords)
    /\ w_chunk \in WordChunkSizes
    /\ w_op = "idle"
    /\ w_events = <<>>

\* transcribe.py 53-71 called with (w_words, w_chunk)
CallWordsToAssEvents ==
    /\ w_op = "idle"
    /\ w_op' = "fixed"
    /\ w_events' = words_to_ass_events(w_words, w_chunk)
    /\ UNCHANGED <<w_words, w_chunk, pipeVars, timerVars>>

\* transcribe.py 105-144 called with (w_words, w_chunk)
CallWordsToSentenceChunkEvents ==
    /\ w_op = "idle"
    /\ w_op' = "sentence"
    /\ w_events' = words_to_sentence_chunk_events(w_words, w_chunk)
    /\ UNCHANGED <<w_words, w_chunk, pipeVars, timerVars>>

\* transcribe.py 147-174 called with w_words
CallWordsToSingleWordEvents ==
    /\ w_op = "idle"
    /\ w_op' = "single"
    /\ w_events' = words_to_single_word_events(w_words)
    /\ UNCHANGED <<w_words, w_chunk, pipeVars, timerVars>>

WordsNext ==
    \/ CallWordsToAssEvents
    \/ CallWordsToSentenceChunkEvents
    \/ CallWordsToSingleWordEvents

InitWords == PipeOff /\ TimerOff /\ WordsInit

SpecWords == InitWords /\ [][WordsNext]_vars

OnlyPunctuation(text) ==
    text # <<>> /\ \A i \in 1..Len(text) : text[i] \in PunctChars
SpokenWords ==
    {i \in 1..Len(w_words) :
        Strip(w_words[i].text) # <<>> /\ ~OnlyPunctuation(Strip(w_words[i].text))}

\* C9: words_to_single_word_events emits no event whose text is only
\* punctuation, and as many events as there are non-empty tokens that are
\* not punctuation.
C9_NoBarePunctuationEvent ==
    w_op = "single" =>
        /\ \A i \in 1..Len(w_events) : ~OnlyPunctuation(w_events[i].text)
        /\ Len(w_events) = Cardinality(SpokenWords)

\* C10: every event of the fixed-chunk, sentence-bounded and single-word
\* strategies ends no earlier than it starts.
C10_EventEndNotBeforeStart ==
    w_op \in {"fixed", "sentence", "single"} =>
        \A i \in 1..Len(w_events) : w_events[i].end >= w_events[i].start

\* the ways of cutting n consecutive tokens into events of 1..cap tokens
RECURSIVE SumSeq(_)
SumSeq(q) == IF q = <<>> THEN 0 ELSE Head(q) + SumSeq(Tail(q))
Cuts(n, cap) == {q \in SeqsUpTo(1..cap, n) : SumSeq(q) = n}
\* the tokens of the i-th event of a cut
CutChunk(words, q, i) ==
    LET before == SumSeq(SubSeq(q, 1, i - 1))
    IN  SubSeq(words, before + 1, before + q[i])

\* C11: the events of words_to_sentence_chunk_events are the events of a
\* cut of the input, in order and with no token left out, into chunks of 1
\* to max(1, max_words_per_event) tokens in which a sentence-terminal token
\* is only ever the last token.
C11_ChunksWithinSentences ==
    w_op = "sentence" =>
        \E q \in Cuts(Len(w_words), Max(1, w_chunk)) :
            /\ Len(w_events) = Len(q)
            /\ \A i \in 1..Len(q) :
                 LET chunk == CutChunk(w_words, q, i)
                 IN  /\ \A j \in 1..(Len(chunk) - 1) :
                            Strip(chunk[j].text) \notin EndTokens
                     /\ w_events[i].start = chunk[1].start
                     /\ w_events[i].end = chunk[Len(chunk)].end
                     /\ w_events[i].text = Strip(JoinSpace(WordTexts(chunk)))

C11_Witness ==
    /\ w_op = "sentence" /\ w_chunk = 2 /\ Len(w_words) = 3
    /\ w_words[1].text = <<".">> /\ w_words[2].text = <<"a">>
    /\ w_words[3].text = <<"a">>
    /\ Len(w_events) = 2 /\ w_events[1].text = <<".">>


-----------------------------------------------------------------------------
\* C12: every block written by _write_proportional_srt and every Dialogue
\* line written by _write_centered_ass carries a non-empty text, for every
\* caption text the pipeline hands to them (a non-empty str, so that the
\* conditions of lines 180 and 205 hold), whitespace-only text included.
C12_NoEmptyCaptionText ==
    (t_op \in {"srt", "ass"} /\ t_text # <<>>) =>
        \A i \in 1..Len(t_out) : t_out[i].text # <<>>

\* C13: in the command of the Mux step, whatever the caption inputs,
\* burn_captions and playback_speed are: the video is copied ("-c:v copy")
\* exactly when no subtitles are burned in and playback_speed is 1.0, and is
\* encoded with libx264 otherwise; subtitles are burned in exactly when
\* burn_captions is set and a caption input is configured; setpts and atempo
\* are both present when playback_speed is not 1.0 and both absent when it
\* is; the audio codec is always aac and -shortest is always given.
C13_MuxCommandShape ==
    mux_cmd # None =>
        LET cmd == mux_cmd[1]
            burned == burn_captions /\ CaptionConfigured
        IN  /\ (cmd.subtitles # None) <=> burned
            /\ (cmd.cv = "copy") <=> (~burned /\ playback_speed = 100)
            /\ (cmd.cv # "copy") => cmd.cv = "libx264"
            /\ cmd.setpts <=> (playback_speed # 100)
            /\ cmd.atempo <=> (playback_speed # 100)
            /\ cmd.ca = "aac"
            /\ cmd.shortest

\* the command of main.py: events burned in at speed 1.2
C13_Witness ==
    /\ mux_cmd # None
    /\ Truthy(ass_events) /\ burn_captions /\ playback_speed = 120
    /\ mux_cmd[1].subtitles = ass_path /\ ass_path # None
    /\ mux_cmd[1].cv = "libx264" /\ mux_cmd[1].setpts /\ mux_cmd[1].atempo

\* thirteen words, word i spoken over [100 i, 100 i + 50]
ThirteenWords ==
    [i \in 1..13 |-> [text |-> <<"a">>, start |-> 100 * i, end |-> 100 * i + 50]]

\* C14: words_to_ass_events over n words with chunk size k yields
\* ceil(n / max(1, k)) events; event i covers the words from (i-1) max(1,k) + 1
\* to min(i max(1,k), n), so every event but the last covers max(1,k) words
\* and the last the remainder; its interval is
\* [first_word.start, max(first_word.start, last_word.end)] and its text the
\* words of the chunk joined by spaces.  Thirteen words with k = 6 give three
\* events, of words 1-6, 7-12 and 13.
C14_FixedChunks ==
    /\ w_op = "fixed" =>
          LET k == Max(1, w_chunk)
              n == Len(w_words)
          IN  /\ Len(w_events) = (n + k - 1) \div k
              /\ \A i \in 1..Len(w_events) :
                   LET first == (i - 1) * k + 1
                       last == Min(i * k, n)
                       chunk == SubSeq(w_words, first, last)
                   IN  /\ first <= last
                       /\ (i < Len(w_events)) => (last - first + 1 = k)
                       /\ w_events[i].start = w_words[first].start
                       /\ w_events[i].end =
                            Max(w_words[first].start, w_words[last].end)
                       /\ w_events[i].text = Strip(JoinSpace(WordTexts(chunk)))
    /\ LET ev == words_to_ass_events(ThirteenWords, 6)
       IN  /\ Len(ev) = 3
           /\ <<ev[1].start, ev[1].end>> = <<100, 650>>
           /\ <<ev[2].start, ev[2].end>> = <<700, 1250>>
           /\ <<ev[3].start, ev[3].end>> = <<1300, 1350>>

\* three words in chunks of two: a full chunk and a remainder of one, the
\* remainder's word ending before it starts
C14_Witness ==
    /\ w_op = "fixed" /\ w_chunk = 2 /\ Len(w_words) = 3
    /\ Len(w_events) = 2
    /\ w_words[3].start = 400 /\ w_words[3].end = 0
    /\ w_events[2].start = 400 /\ w_events[2].end = 400

HelloThereOk ==
    <<"H", "e", "l", "l", "o", " ", "t", "h", "e", "r", "e", ".", " ",
      "O", "k", ".">>

\* C15: for every text handed to _write_proportional_srt, the sentences
\* returned by _split_into_sentences are such that none but the first is
\* shorter than 10 characters, and joined by single spaces they are the
\* fragments of the split, joined by single spaces in their original order;
\* one block is written per sentence.  "Hello there. Ok." is returned as the
\* one sentence "Hello there. Ok.".
C15_ShortFragmentsMerged ==
    /\ (t_op = "srt" /\ Strip(t_text) # <<>>) =>
          LET sentences == split_into_sentences(t_text)
              parts == SentenceSplit(Strip(t_text), <<>>)
          IN  /\ \A i \in 2..Len(sentences) : Len(sentences[i]) >= ShortFragment
              /\ JoinSpace(sentences) = JoinSpace(parts)
              /\ Len(sentences) <= Len(parts)
              /\ Len(t_out) = Len(sentences)
    /\ split_into_sentences(HelloThereOk) = <<HelloThereOk>>

\* "bcdefghij. a.": the fragment "a." is merged into the sentence before it
C15_Witness ==
    /\ t_op = "srt" /\ t_max_chars = 42 /\ t_max_lines = 1
    /\ t_text = <<"b", "c", "d", "e", "f", "g", "h", "i", "j", ".", " ", "a", ".">>
    /\ Len(SentenceSplit(Strip(t_text), <<>>)) = 2
    /\ Len(t_out) = 1
    /\ t_out[1].text = t_text

\* the command the Mux step is about to run
PendingMux ==
    mux_command(captions_text, ass_captions_text, ass_events, burn_captions,
                playback_speed, srt_path, ass_path)
RenderedOk(i) == trace[i].step = "RenderSubtitles" /\ trace[i].rc = 0

\* C16: when the run is at the Mux step and the command names a subtitle
\* file in its subtitles filter, that file is srt_path or ass_path of this
\* run's working area, it is present there, and a RenderSubtitles step of
\* this run has completed; after Mux has run with such a command, the trace
\* has a completed RenderSubtitles before the Mux entry.  A subtitle file is
\* present in the working area only if its caption input is configured, and
\* with no caption input there is no RenderSubtitles step.
C16_BurnedFileWasRendered ==
    /\ (pc = "Mux" /\ PendingMux.subtitles # None) =>
          /\ workarea.exists
          /\ PendingMux.subtitles \in {srt_path, ass_path}
          /\ (PendingMux.subtitles = srt_path) => workarea.srt # None
          /\ (PendingMux.subtitles = ass_path) => workarea.ass # None
          /\ \E i \in 1..Len(trace) : RenderedOk(i)
    /\ (mux_cmd # None /\ mux_cmd[1].subtitles # None) =>
          \E i, j \in 1..Len(trace) :
              i < j /\ RenderedOk(i) /\ trace[j].step = "Mux"
    /\ (workarea.srt # None) => Truthy(captions_text)
    /\ (workarea.ass # None) => (Truthy(ass_captions_text) \/ Truthy(ass_events))
    /\ ~CaptionConfigured =>
          \A i \in 1..Len(trace) : trace[i].step # "RenderSubtitles"

\* both caption texts configured and burned: both files are written and the
\* command names the ASS file
C16_Witness ==
    /\ pc = "Mux" /\ burn_captions
    /\ Truthy(captions_text) /\ Truthy(ass_captions_text) /\ ~Truthy(ass_events)
    /\ workarea.srt # None /\ workarea.ass # None
    /\ PendingMux.subtitles = ass_path /\ ass_path # None

=============================================================================
